---- MODULE Spec2Model ----
(***************************************************************************)
(* Risk-gated trade decision engine of ara-agent-service:                  *)
(*   SolanaWallet        (src/src/tools/wallet.ts)   safety gate + swaps   *)
(*   PositionManager     (src/src/tools/tokens.ts)   position ledger       *)
(*   TradingToolExecutor (src/src/tools/trading.ts)  execute_trade & co.   *)
(*                                                                         *)
(* Units.  Time is in milliseconds, as in the code.  SOL / token amounts   *)
(* are fixed-point tenths (0.5 SOL = 5), prices are fixed-point hundredths *)
(* (1.00 USD = 100), so that every comparison of the code is an integer    *)
(* comparison of the same two quantities.                                  *)
(*                                                                         *)
(* Specifications.                                                         *)
(*   Spec        the executor's tools over three addresses                 *)
(*   SpecPair    trading and the safety gate over two addresses            *)
(*   SpecLife    trading and price refreshes over two addresses            *)
(*   SpecIntent  execute_trade and check_token_tradable, any intent        *)
(*   SpecThresholds  set_stop_loss / set_take_profit and price refreshes   *)
(*   SpecWallet  the SolanaWallet's methods called directly                *)
(*   SpecLedger  the PositionManager's methods called directly             *)
(*   SpecDisk    the PositionManager over a file whose writes may fail     *)
(*   SpecExit    a position bought, refreshed and sold in full (fairness)  *)
(*   SpecDurable the ledger's mutations through the executor, and restarts *)
(*   SpecScore   calculateScore / generateFlags applied to one token       *)
(*   SpecAge     the same, applied again as time passes                    *)
(*   SpecAgent   the agent's tool loop (src/src/agent.ts) and the tasks    *)
(*               that run beside it                                        *)
(*   SpecVote    the VotingManager (src/src/voting.ts): votes and tallies  *)
(***************************************************************************)
EXTENDS Integers, Sequences, FiniteSets, TLC

\* ---------------------------------------------------------------- constants
\* DEFAULT_CONFIG (wallet.ts:45-51), amounts in tenths of a SOL
MaxTradeSize == 5
MaxPositions == 2
DailyLossLimit == 10
CooldownMs == 60000
\* const dayMs = 24 * 60 * 60 * 1000 (wallet.ts:298)
DayMs == 86400000
\* new PositionManager(15, 50) (trading.ts:853, tokens.ts:267)
DefaultStopLossPercent == 15
DefaultTakeProfitPercent == 50
\* 1000 * 60 * 60: the milliseconds of an hour
HourMs == 3600000
\* votingPeriodMs: 30 minutes
VotingPeriodMs == 1800000

\* ------------------------------------------------------------------- bounds
\* Date.now() when the wallet is constructed (any value >= CooldownMs: the
\* real clock is decades past lastTradeTime = 0)
StartTime == 100000
\* granularity of the clock steps that are shorter than a day
TickMs == 30000
\* at most MaxSmall short steps and MaxDays day-long steps of the clock
MaxSmall == 2
MaxDays == 1
\* at most MaxWaits waits of one cooldown each
MaxWaits == 2
\* questions the queue holds (maxQueueSize, scaled down)
MaxQueue == 1
\* |dailyPnl| stays within MaxAbsPnl in the runs that call updateDailyPnl
MaxAbsPnl == 12

\* ------------------------------------------------------------------- inputs
Addrs == {"A", "B", "Cpump"}
\* tokenMint.toLowerCase().endsWith('pump') (wallet.ts:226)
PumpAddrs == {"Cpump"}
\* the two-address universe of the exhaustive runs
PairAddrs == {"A", "Cpump"}
Directions == {"buy", "sell"}
\* amounts an intent may carry: at and above maxTradeSize
Amounts == {5, 6}
\* amounts of a malformed intent (negative, zero) beside a well-formed one
IntentAmounts == {-5, 0, 5}
\* outcomes of the tradability probe's fetch (wallet.ts:231-243, 262-267)
ProbeOutcomes == {"ok_route", "ok_noroute", "ok_error", "not_ok", "throw"}
\* outcomes of the swap collaborator in executeSwap (wallet.ts:380-498)
SwapOutcomes == {"ok", "quote_not_ok", "tx_err", "throw"}
\* outputAmount reported by a successful swap
OutAmounts == {3}
\* the address whose exit is followed, and the token amounts its buys may
\* return: below and above MaxTradeSize
ExitAddrs == {"A"}
ExitOutAmounts == {3, 30}
\* time the swap collaborator takes between the safety check and completion
Latency == {0, TickMs}
\* price lookups: the fetch fails, or returns a priceUsd
Prices == {100}
\* price a refresh of an open position may see in the agent's runs: below
\* the stop loss of an entry at 100
RefreshPrices == {80}
\* addresses and arguments of direct PositionManager calls (as in
\* __tests__/trading.test.ts): amount, entryPrice, costBasis
LedgerAddrs == {"addr1", "addr2"}
OpenArgs ==
    {[tokenSymbol |-> "TEST1", amount |-> 100, entryPrice |-> 100, costBasis |-> 1],
     [tokenSymbol |-> "TEST2", amount |-> 200, entryPrice |-> 200, costBasis |-> 2]}
\* prices of direct updatePrice / closePosition calls
LedgerPrices == {80, 160}
\* SOL received by a direct closePosition call
SoldAmounts == {1, 3}
Lookups == {[ok |-> FALSE, priceUsd |-> 0]} \cup {[ok |-> TRUE, priceUsd |-> p] : p \in Prices}
\* percentages given to set_stop_loss / set_take_profit: the default, and
\* ones that put a threshold at zero or on the wrong side of the entry price
ThresholdPercents == {-50, 15, 100}
\* the tool_use blocks of one response of the model, in order
ToolResponses ==
    {<<"execute_trade">>, <<"check_can_trade", "execute_trade">>,
     <<"execute_trade", "execute_trade">>}
\* arguments of updateDailyPnl
PnlValues == {-6, -5, 5}
\* visitorId / style of a vote message: the style is whatever string the
\* message carries
Visitors == {"v1", "v2", "v3"}
VoteStyles == {"APE", "DIAMOND", "PAPER", "DEGEN", "constructor", "YOLO"}

\* ------------------------------------------------------------ JS numbers
\* A JS number that may be undefined, NaN or infinite.
Undef == [k |-> "undef", v |-> 0]
Num(x) == [k |-> "num", v |-> x]
\* a / b * 100 of two JS numbers on the model's integer grid
PercentOf(a, b) ==
    IF b = 0
    THEN (IF a = 0 THEN [k |-> "nan", v |-> 0]
          ELSE [k |-> "inf", v |-> IF a > 0 THEN 1 ELSE -1])
    ELSE Num((a * 100) \div b)

\* Math.ceil(a / b) for b > 0
CeilDiv(a, b) == -((-a) \div b)

\* x || 0 and x || 1 of an optional number: undefined, NaN and 0 are falsy
OrZero(x) == IF x.k = "num" THEN x.v ELSE 0
OrOne(x) == IF x.k = "num" /\ x.v # 0 THEN x.v ELSE 1

\* Math.max(a, b), Math.min(a, b)
Max(a, b) == IF a >= b THEN a ELSE b
Min(a, b) == IF a <= b THEN a ELSE b

\* faulty variant of RatioGt: >= in place of >
RatioGe(a, b, n, d) == a * d >= n * b

\* a / b > n / d and a / b < n / d for b > 0, d > 0
RatioGt(a, b, n, d) == a * d > n * b
RatioLt(a, b, n, d) == a * d < n * b

\* ------------------------------------------------- tokens given to the scorer
\* fields of a DiscoveredToken; Undef is a field the provider left out
Volumes == {Undef, Num(30000), Num(600000), Num(6000000)}
Liquidities == {Undef, Num(15000), Num(60000), Num(600000)}
Txns ==
    {[buys |-> Undef, sells |-> Undef], [buys |-> Num(10), sells |-> Num(30)],
     [buys |-> Num(40), sells |-> Num(50)], [buys |-> Num(300), sells |-> Num(300)],
     [buys |-> Num(600), sells |-> Num(400)], [buys |-> Num(800), sells |-> Num(400)]}
PriceChanges == {Undef, Num(-60), Num(-40), Num(-20), Num(30), Num(150), Num(350)}
MarketCaps == {Undef, Num(30000), Num(20000000)}
BoostAmounts == {Undef, Num(200), Num(600)}
\* socials.twitter / telegram / website is a non-empty string
Socials == [twitter : BOOLEAN, telegram : BOOLEAN, website : BOOLEAN]
\* pairCreatedAt: left out, or half an hour before the clock's start
CreatedAts == {Undef, Num(StartTime - 1800000)}

\* the tokens whose score is studied
ScoreCandidates ==
    [address : {"A"}, volume24h : Volumes, liquidity : Liquidities,
     txns24h : Txns, priceChange24h : PriceChanges, marketCap : MarketCaps,
     boostAmount : BoostAmounts, socials : Socials, pairCreatedAt : {Undef}]

\* the tokens whose flags are studied as time passes
AgeCandidates ==
    [address : {"A", "Cpump"}, volume24h : {Num(30000)},
     liquidity : {Undef, Num(15000)}, txns24h : Txns, priceChange24h : PriceChanges,
     marketCap : {Num(30000)}, boostAmount : {Undef}, socials : Socials,
     pairCreatedAt : CreatedAts]

\* ---------------------------------------------------------------- variables
VARIABLES
    now,                \* Date.now()
    keypair,            \* SolanaWallet.keypair !== null
    lastTradeTime,      \* SolanaWallet.lastTradeTime
    dailyPnl,           \* SolanaWallet.dailyPnl
    dailyPnlResetTime,  \* SolanaWallet.dailyPnlResetTime (dailyPnlWindowStart)
    positions,          \* PositionManager.positions: Map entries, insertion order
    stopLossPercent,    \* PositionManager.stopLossPercent
    takeProfitPercent,  \* PositionManager.takeProfitPercent
    disk,               \* data/positions.json
    diskWritable,       \* writeFileSync(POSITIONS_FILE, ...) succeeds
    last,               \* the last operation performed and what it returned
    toolBlocks,         \* tool_use blocks of the response not yet executed
    inFlight,           \* tool calls invoked that have not returned yet
    questionQueue,      \* TradingAgent.questionQueue.length
    candidate,          \* the token record given to the scorer
    evaluation,         \* what the scorer last returned for it
    votes,              \* VotingManager.votes: Map entries, insertion order
    currentStyle,       \* VotingManager.currentStyle
    voteEndTime         \* VotingManager.voteEndTime

vars == <<now, keypair, lastTradeTime, dailyPnl, dailyPnlResetTime,
          positions, stopLossPercent, takeProfitPercent, disk, diskWritable, last,
          toolBlocks, inFlight, questionQueue, candidate, evaluation,
          votes, currentStyle, voteEndTime>>

\* the state of the voting manager
poll == <<votes, currentStyle, voteEndTime>>

\* the state kept beside the engine and the agent's loop
aside == <<candidate, evaluation, poll>>

\* the state of the engine, as opposed to that of the agent's loop
engine == <<now, keypair, lastTradeTime, dailyPnl, dailyPnlResetTime,
            positions, stopLossPercent, takeProfitPercent, disk, diskWritable, last>>

\* the wallet's safety state as one value
Wallet ==
    [keypair |-> keypair, lastTradeTime |-> lastTradeTime,
     dailyPnl |-> dailyPnl, dailyPnlResetTime |-> dailyPnlResetTime]

\* the PositionManager and the file it persists to, as one value
Ledger ==
    [positions |-> positions, stopLossPercent |-> stopLossPercent,
     takeProfitPercent |-> takeProfitPercent, disk |-> disk,
     diskWritable |-> diskWritable]

\* ============================================================ SolanaWallet

\* isTokenTradable(tokenMint): one probe quote; `probe` is what the fetch did.
isTokenTradable(tokenMint, probe) ==
    IF tokenMint \in PumpAddrs
    THEN (CASE probe = "throw"  -> [tradable |-> FALSE, reason |-> "QUOTE_FAILED"]
            [] probe = "not_ok" -> [tradable |-> FALSE, reason |-> "PUMP_FUN_NOT_GRADUATED"]
            [] probe \in {"ok_error", "ok_noroute"}
                                -> [tradable |-> FALSE, reason |-> "NO_ROUTE"]
            [] OTHER            -> [tradable |-> TRUE, reason |-> ""])
    ELSE (CASE probe = "throw"  -> [tradable |-> TRUE, reason |-> ""]
            [] probe = "not_ok" -> [tradable |-> FALSE, reason |-> "NO_JUPITER_ROUTE"]
            [] OTHER            -> [tradable |-> TRUE, reason |-> ""])

\* faulty variant of RollWindow: rolls as soon as the window is a day old
RollWindowAtDay(w, t) ==
    IF t - w.dailyPnlResetTime >= DayMs
    THEN [w EXCEPT !.dailyPnl = 0, !.dailyPnlResetTime = t]
    ELSE w

\* the window roll of canTrade: dailyPnl := 0, dailyPnlResetTime := now
RollWindow(w, t) ==
    IF t - w.dailyPnlResetTime > DayMs
    THEN [w EXCEPT !.dailyPnl = 0, !.dailyPnlResetTime = t]
    ELSE w

\* faulty variant of canTrade: the cooldown check is missing
canTradeNoCooldown(w, amountSol, t) ==
    IF ~w.keypair
    THEN [allowed |-> FALSE, reason |-> "wallet_not_loaded", rolled |-> FALSE, w |-> w]
    ELSE IF amountSol > MaxTradeSize
    THEN [allowed |-> FALSE, reason |-> "exceeds_max", rolled |-> FALSE, w |-> w]
    ELSE LET w2 == RollWindow(w, t) IN
         IF w2.dailyPnl < -DailyLossLimit
         THEN [allowed |-> FALSE, reason |-> "daily_loss", rolled |-> w2 # w, w |-> w2]
         ELSE [allowed |-> TRUE, reason |-> "", rolled |-> w2 # w, w |-> w2]

\* faulty variant of canTrade: a loss of exactly dailyLossLimit denies
canTradeLossInclusive(w, amountSol, t) ==
    IF ~w.keypair
    THEN [allowed |-> FALSE, reason |-> "wallet_not_loaded", rolled |-> FALSE, w |-> w]
    ELSE IF amountSol > MaxTradeSize
    THEN [allowed |-> FALSE, reason |-> "exceeds_max", rolled |-> FALSE, w |-> w]
    ELSE IF t - w.lastTradeTime < CooldownMs
    THEN [allowed |-> FALSE, reason |-> "cooldown", rolled |-> FALSE, w |-> w]
    ELSE LET w2 == RollWindow(w, t) IN
         IF w2.dailyPnl <= -DailyLossLimit
         THEN [allowed |-> FALSE, reason |-> "daily_loss", rolled |-> w2 # w, w |-> w2]
         ELSE [allowed |-> TRUE, reason |-> "", rolled |-> w2 # w, w |-> w2]

\* faulty variant of canTrade: the cooldown is checked before the size
canTradeCooldownFirst(w, amountSol, t) ==
    IF ~w.keypair
    THEN [allowed |-> FALSE, reason |-> "wallet_not_loaded", rolled |-> FALSE, w |-> w]
    ELSE IF t - w.lastTradeTime < CooldownMs
    THEN [allowed |-> FALSE, reason |-> "cooldown", rolled |-> FALSE, w |-> w]
    ELSE IF amountSol > MaxTradeSize
    THEN [allowed |-> FALSE, reason |-> "exceeds_max", rolled |-> FALSE, w |-> w]
    ELSE LET w2 == RollWindow(w, t) IN
         IF w2.dailyPnl < -DailyLossLimit
         THEN [allowed |-> FALSE, reason |-> "daily_loss", rolled |-> w2 # w, w |-> w2]
         ELSE [allowed |-> TRUE, reason |-> "", rolled |-> w2 # w, w |-> w2]

\* canTrade(amountSol) evaluated at Date.now() = t on wallet state w.
\* Returns the verdict and the wallet state the call leaves behind.
canTrade(w, amountSol, t) ==
    IF ~w.keypair
    THEN [allowed |-> FALSE, reason |-> "wallet_not_loaded", rolled |-> FALSE, w |-> w]
    ELSE IF amountSol > MaxTradeSize
    THEN [allowed |-> FALSE, reason |-> "exceeds_max", rolled |-> FALSE, w |-> w]
    ELSE IF t - w.lastTradeTime < CooldownMs
    THEN [allowed |-> FALSE, reason |-> "cooldown", rolled |-> FALSE, w |-> w]
    ELSE LET w2 == RollWindow(w, t) IN
         IF w2.dailyPnl < -DailyLossLimit
         THEN [allowed |-> FALSE, reason |-> "daily_loss", rolled |-> w2 # w, w |-> w2]
         ELSE [allowed |-> TRUE, reason |-> "", rolled |-> w2 # w, w |-> w2]

\* `Cooldown active, wait ${waitSecs}s`
waitSecs(w, t) == CeilDiv(CooldownMs - (t - w.lastTradeTime), 1000)

\* updateDailyPnl(pnlSol)
updateDailyPnl(w, pnlSol) == [w EXCEPT !.dailyPnl = @ + pnlSol]

\* faulty variant of executeSwap: lastTradeTime is stamped when the swap
\* collaborator answers, whether it succeeded or not
executeSwapStampsFailure(w, amountSol, t, swap, lat, out) ==
    LET ct == canTrade(w, amountSol, t) IN
    IF ~ct.allowed
    THEN [success |-> FALSE, error |-> ct.reason, outputAmount |-> Undef,
          dispatched |-> FALSE, w |-> ct.w, t |-> t]
    ELSE [success |-> swap = "ok", error |-> IF swap = "ok" THEN "" ELSE swap,
          outputAmount |-> IF swap = "ok" THEN Num(out) ELSE Undef,
          dispatched |-> TRUE,
          w |-> [ct.w EXCEPT !.lastTradeTime = t + lat], t |-> t + lat]

\* faulty variant of executeSwap: canTrade is not checked again, only the
\* keypair is
executeSwapNoRecheck(w, amountSol, t, swap, lat, out) ==
    IF ~w.keypair
    THEN [success |-> FALSE, error |-> "wallet_not_loaded", outputAmount |-> Undef,
          dispatched |-> FALSE, w |-> w, t |-> t]
    ELSE IF swap # "ok"
    THEN [success |-> FALSE, error |-> swap, outputAmount |-> Undef,
          dispatched |-> TRUE, w |-> w, t |-> t + lat]
    ELSE [success |-> TRUE, error |-> "", outputAmount |-> Num(out),
          dispatched |-> TRUE,
          w |-> [w EXCEPT !.lastTradeTime = t + lat], t |-> t + lat]

\* executeSwap(inputMint, outputMint, amountSol) entered at time t; the swap
\* collaborator answers `swap` after `lat` ms and, when it succeeds, reports
\* `out`.  (executeMockSwap, the devnet path, is the "ok" outcome: it sets
\* lastTradeTime and returns success.)  dispatched: the collaborator was called.
executeSwap(w, amountSol, t, swap, lat, out) ==
    LET ct == canTrade(w, amountSol, t) IN
    IF ~ct.allowed
    THEN [success |-> FALSE, error |-> ct.reason, outputAmount |-> Undef,
          dispatched |-> FALSE, w |-> ct.w, t |-> t]
    ELSE IF ~ct.w.keypair
    THEN [success |-> FALSE, error |-> "wallet_not_loaded", outputAmount |-> Undef,
          dispatched |-> FALSE, w |-> ct.w, t |-> t]
    ELSE IF swap # "ok"
    THEN [success |-> FALSE, error |-> swap, outputAmount |-> Undef,
          dispatched |-> TRUE, w |-> ct.w, t |-> t + lat]
    ELSE [success |-> TRUE, error |-> "", outputAmount |-> Num(out),
          dispatched |-> TRUE,
          w |-> [ct.w EXCEPT !.lastTradeTime = t + lat], t |-> t + lat]

\* buyToken / sellToken: both are executeSwap with the caller's amount
buyToken(w, solAmount, t, swap, lat, out) ==
    executeSwap(w, solAmount, t, swap, lat, out)

sellToken(w, tokenAmount, t, swap, lat, out) ==
    executeSwap(w, tokenAmount, t, swap, lat, out)

\* ========================================================= PositionManager
\* positions is a JS Map<string, Position>: a sequence of entries
\* [key, value] in insertion order, as Array.from(map.entries()) lists them.

\* indices of the entries stored under key k
IndicesOf(m, k) == {i \in 1..Len(m) : m[i].key = k}

\* Map.has(k)
MapHas(m, k) == IndicesOf(m, k) # {}

\* Map.get(k): the entry's value (callers test MapHas first)
MapGet(m, k) == m[CHOOSE i \in IndicesOf(m, k) : TRUE].value

\* faulty variant of MapSet: an array push instead of a keyed store
MapSetAppends(m, k, v) == Append(m, [key |-> k, value |-> v])

\* faulty variant of MapSet: one slot, the entry stored last is overwritten
MapSetOneSlot(m, k, v) ==
    IF m = <<>>
    THEN <<[key |-> k, value |-> v]>>
    ELSE [m EXCEPT ![Len(m)] = [key |-> k, value |-> v]]

\* Map.set(k, v): replaces the value in place when the key is present,
\* appends a new entry otherwise
MapSet(m, k, v) ==
    IF MapHas(m, k)
    THEN [i \in 1..Len(m) |-> IF m[i].key = k THEN [key |-> k, value |-> v] ELSE m[i]]
    ELSE Append(m, [key |-> k, value |-> v])

\* faulty variant of MapDelete: Map.clear() instead of a keyed delete
MapDeleteClears(m, k) == <<>>

\* Map.delete(k)
MapDelete(m, k) == SelectSeq(m, LAMBDA e : e.key # k)

\* Map.size
MapSize(m) == Len(m)

\* getPositionCount()
getPositionCount(m) == MapSize(m)

\* hasPosition(tokenAddress)
hasPosition(m, tokenAddress) == MapHas(m, tokenAddress)

\* entryPrice * (1 - stopLossPercent / 100)
StopLossOf(entryPrice, slPct) == (entryPrice * (100 - slPct)) \div 100

\* entryPrice * (1 + takeProfitPercent / 100)
TakeProfitOf(entryPrice, tpPct) == (entryPrice * (100 + tpPct)) \div 100

\* JSON.stringify of a number: NaN and the infinities are written as null,
\* an undefined field is left out (and is undefined again when read)
JsonNumber(x) == IF x.k \in {"nan", "inf"} THEN [k |-> "null", v |-> 0] ELSE x

JsonPosition(p) ==
    [p EXCEPT !.currentPrice = JsonNumber(@),
              !.unrealizedPnlPercent = JsonNumber(@)]

\* data/positions.json does not exist
NoFile ==
    [exists |-> FALSE, positions |-> <<>>, stopLossPercent |-> 0,
     takeProfitPercent |-> 0]

\* toJSON(): Array.from(positions.entries()) and the two percentages
toJSON(pm) ==
    [positions |-> pm.positions, stopLossPercent |-> pm.stopLossPercent,
     takeProfitPercent |-> pm.takeProfitPercent]

\* JSON.stringify(json, null, 2) as the file's content
Stringify(json) ==
    [exists |-> TRUE,
     positions |-> [i \in 1..Len(json.positions) |->
                      [key |-> json.positions[i].key,
                       value |-> JsonPosition(json.positions[i].value)]],
     stopLossPercent |-> json.stopLossPercent,
     takeProfitPercent |-> json.takeProfitPercent]

\* faulty variant of saveToDisk: after a failed write the positions in
\* memory are replaced by those of the file
saveToDiskReverts(pm) ==
    IF pm.diskWritable
    THEN [pm EXCEPT !.disk = Stringify(toJSON(pm))]
    ELSE [pm EXCEPT !.positions = pm.disk.positions]

\* saveToDisk(): a failed write is caught and logged, the file is left alone
saveToDisk(pm) ==
    IF pm.diskWritable
    THEN [pm EXCEPT !.disk = Stringify(toJSON(pm))]
    ELSE pm

\* for (const [addr, pos] of parsed.positions) this.positions.set(addr, pos)
RECURSIVE LoadEntries(_, _, _)
LoadEntries(m, entries, i) ==
    IF i > Len(entries)
    THEN m
    ELSE LoadEntries(MapSet(m, entries[i].key, entries[i].value), entries, i + 1)

\* loadFromDisk(): nothing is read when the file does not exist; a
\* percentage of the file replaces the constructor's when it is truthy
loadFromDisk(pm) ==
    IF ~pm.disk.exists
    THEN pm
    ELSE [pm EXCEPT
            !.positions = LoadEntries(pm.positions, pm.disk.positions, 1),
            !.stopLossPercent =
                IF pm.disk.stopLossPercent # 0 THEN pm.disk.stopLossPercent ELSE @,
            !.takeProfitPercent =
                IF pm.disk.takeProfitPercent # 0 THEN pm.disk.takeProfitPercent ELSE @]

\* new PositionManager(stopLoss, takeProfit) over the file system fs
NewPositionManager(stopLoss, takeProfit, fs) ==
    loadFromDisk([positions |-> <<>>, stopLossPercent |-> stopLoss,
                  takeProfitPercent |-> takeProfit, disk |-> fs.disk,
                  diskWritable |-> fs.diskWritable])

\* PositionManager.fromJSON(data) over the file system fs: the constructor
\* runs first (and reads the file), then the document's entries are set
fromJSON(data, fs) ==
    LET pm == NewPositionManager(data.stopLossPercent, data.takeProfitPercent, fs)
    IN  [pm EXCEPT !.positions = LoadEntries(pm.positions, data.positions, 1)]

\* the Position object openPosition builds at Date.now() = t
NewPosition(tokenAddress, tokenSymbol, amount, entryPrice, costBasis, slPct, tpPct, t) ==
    [tokenAddress |-> tokenAddress,
     tokenSymbol |-> tokenSymbol,
     entryPrice |-> entryPrice,
     entryTime |-> t,
     amount |-> amount,
     costBasis |-> costBasis,
     currentPrice |-> Undef,
     unrealizedPnlPercent |-> Undef,
     stopLoss |-> StopLossOf(entryPrice, slPct),
     takeProfit |-> TakeProfitOf(entryPrice, tpPct)]

\* openPosition(tokenAddress, tokenSymbol, amount, entryPrice, costBasis)
openPosition(pm, tokenAddress, tokenSymbol, amount, entryPrice, costBasis, t) ==
    saveToDisk([pm EXCEPT !.positions =
        MapSet(pm.positions, tokenAddress,
               NewPosition(tokenAddress, tokenSymbol, amount, entryPrice, costBasis,
                           pm.stopLossPercent, pm.takeProfitPercent, t))])

\* formatHoldTime(ms): the largest applicable unit
formatHoldTime(ms) ==
    LET seconds == ms \div 1000
        minutes == seconds \div 60
        hours == minutes \div 60
        days == hours \div 24
    IN  IF seconds < 60 THEN <<seconds, "s">>
        ELSE IF minutes < 60 THEN <<minutes, "m">>
        ELSE IF hours < 24 THEN <<hours, "h", minutes % 60, "m">>
        ELSE <<days, "d", hours % 24, "h">>

\* faulty variant of closePosition: the position is not deleted
closePositionKeeps(pm, tokenAddress, exitPrice, soldAmount, t) ==
    IF ~MapHas(pm.positions, tokenAddress)
    THEN [found |-> FALSE, pnlSol |-> 0, pnlPercent |-> Undef,
          holdTime |-> <<>>, pm |-> pm]
    ELSE LET position == MapGet(pm.positions, tokenAddress)
             pnlSol == soldAmount - position.costBasis
         IN  [found |-> TRUE,
              pnlSol |-> pnlSol,
              pnlPercent |-> PercentOf(pnlSol, position.costBasis),
              holdTime |-> formatHoldTime(t - position.entryTime),
              pm |-> saveToDisk(pm)]

\* faulty variant of closePosition: the P&L is taken from the exit price
\* (exitPrice * amount, in SOL) instead of the proceeds received
closePositionByPrice(pm, tokenAddress, exitPrice, soldAmount, t) ==
    IF ~MapHas(pm.positions, tokenAddress)
    THEN [found |-> FALSE, pnlSol |-> 0, pnlPercent |-> Undef,
          holdTime |-> <<>>, pm |-> pm]
    ELSE LET position == MapGet(pm.positions, tokenAddress)
             pnlSol == (exitPrice * position.amount) \div 10000 - position.costBasis
         IN  [found |-> TRUE,
              pnlSol |-> pnlSol,
              pnlPercent |-> PercentOf(pnlSol, position.costBasis),
              holdTime |-> formatHoldTime(t - position.entryTime),
              pm |-> saveToDisk([pm EXCEPT !.positions =
                                    MapDelete(pm.positions, tokenAddress)])]

\* closePosition(tokenAddress, exitPrice, soldAmount) at Date.now() = t:
\* found = FALSE is the null return
closePosition(pm, tokenAddress, exitPrice, soldAmount, t) ==
    IF ~MapHas(pm.positions, tokenAddress)
    THEN [found |-> FALSE, pnlSol |-> 0, pnlPercent |-> Undef,
          holdTime |-> <<>>, pm |-> pm]
    ELSE LET position == MapGet(pm.positions, tokenAddress)
             pnlSol == soldAmount - position.costBasis
         IN  [found |-> TRUE,
              pnlSol |-> pnlSol,
              pnlPercent |-> PercentOf(pnlSol, position.costBasis),
              holdTime |-> formatHoldTime(t - position.entryTime),
              pm |-> saveToDisk([pm EXCEPT !.positions =
                                    MapDelete(pm.positions, tokenAddress)])]

\* updatePrice(tokenAddress, currentPrice): the position object is updated
\* in memory; nothing is written to the file
updatePrice(pm, tokenAddress, currentPrice) ==
    IF ~MapHas(pm.positions, tokenAddress)
    THEN [shouldSell |-> FALSE, reason |-> "", pm |-> pm]
    ELSE LET position == MapGet(pm.positions, tokenAddress)
             updated == [position EXCEPT
                           !.currentPrice = Num(currentPrice),
                           !.unrealizedPnlPercent =
                               PercentOf(currentPrice - position.entryPrice,
                                         position.entryPrice)]
             pm2 == [pm EXCEPT !.positions = MapSet(pm.positions, tokenAddress, updated)]
         IN  IF position.stopLoss # 0 /\ currentPrice <= position.stopLoss
             THEN [shouldSell |-> TRUE, reason |-> "stop_loss", pm |-> pm2]
             ELSE IF position.takeProfit # 0 /\ currentPrice >= position.takeProfit
             THEN [shouldSell |-> TRUE, reason |-> "take_profit", pm |-> pm2]
             ELSE [shouldSell |-> FALSE, reason |-> "", pm |-> pm2]

\* ======================================================= OpportunityScorer
\* calculateScore(token): additive from a base of 50, then clamped
calculateScoreUnclamped(token) ==
    LET volume24h == OrZero(token.volume24h)
        liquidity == OrZero(token.liquidity)
        \* volLiqRatio = (volume24h || 0) / Math.max(liquidity || 1, 1)
        den == Max(OrOne(token.liquidity), 1)
        s1 == 50 + (IF RatioGt(volume24h, den, 10, 1) THEN -15
                    ELSE IF RatioGt(volume24h, den, 3, 1) THEN 15
                    ELSE IF RatioGt(volume24h, den, 3, 2) THEN 10
                    ELSE IF RatioGt(volume24h, den, 1, 2) THEN 5
                    ELSE -5)
        buys == OrZero(token.txns24h.buys)
        sells == OrZero(token.txns24h.sells)
        totalTxns == buys + sells
        \* buyRatio = buys / Math.max(totalTxns, 1)
        tot == Max(totalTxns, 1)
        s2 == s1 + (IF RatioGt(buys, tot, 65, 100) THEN 15
                    ELSE IF RatioGt(buys, tot, 55, 100) THEN 10
                    ELSE IF RatioGt(buys, tot, 45, 100) THEN 0
                    ELSE IF RatioLt(buys, tot, 35, 100) THEN -20
                    ELSE -10)
        change == OrZero(token.priceChange24h)
        s3 == s2 + (IF change > 200 THEN -10
                    ELSE IF change > 50 THEN 5
                    ELSE IF change > 10 THEN 10
                    ELSE IF change > -10 THEN 5
                    ELSE IF change < -50 THEN -25
                    ELSE IF change < -30 THEN -15
                    ELSE 0)
        s4 == s3 + (IF liquidity > 500000 THEN 20
                    ELSE IF liquidity > 200000 THEN 15
                    ELSE IF liquidity > 100000 THEN 10
                    ELSE IF liquidity > 50000 THEN 5
                    ELSE IF liquidity > 20000 THEN 0
                    ELSE -10)
        s5 == s4 + (IF volume24h > 500000 THEN 15
                    ELSE IF volume24h > 200000 THEN 10
                    ELSE IF volume24h > 100000 THEN 5
                    ELSE 0)
        mcap == OrZero(token.marketCap)
        s6 == s5 + (IF mcap > 0 /\ mcap < 50000 THEN -20
                    ELSE IF mcap > 10000000 THEN 10
                    ELSE 0)
        s7 == s6 + (IF totalTxns > 1000 THEN 10
                    ELSE IF totalTxns > 500 THEN 5
                    ELSE IF totalTxns < 100 THEN -15
                    ELSE 0)
        boostAmount == OrZero(token.boostAmount)
        s8 == s7 + (IF boostAmount > 500 THEN 3
                    ELSE IF boostAmount > 100 THEN 2
                    ELSE 0)
        s9 == s8 + (IF token.socials.twitter /\ token.socials.website THEN 15
                    ELSE IF token.socials.twitter THEN 10
                    ELSE IF token.socials.telegram THEN 5
                    ELSE IF token.socials.website THEN 5
                    ELSE -25)
    IN  s9

\* faulty variant of calculateScore: the sum is returned as it is
calculateScoreNoClamp(token) == calculateScoreUnclamped(token)

\* return Math.min(100, Math.max(0, score))
calculateScore(token) == Min(100, Max(0, calculateScoreUnclamped(token)))

\* faulty variant of socialFlags: the telegram link is not looked at
socialFlagsNoTelegram(token) ==
    LET hasTwitter == token.socials.twitter
        hasWebsite == token.socials.website
    IN  IF ~hasTwitter /\ ~hasWebsite
        THEN <<"NO_SOCIALS_RUG_RISK">>
        ELSE <<>>

\* the last block of generateFlags: the flags about the token's socials
socialFlags(token) ==
    LET hasTwitter == token.socials.twitter
        hasTelegram == token.socials.telegram
        hasWebsite == token.socials.website
    IN  IF ~hasTwitter /\ ~hasTelegram /\ ~hasWebsite
        THEN <<"NO_SOCIALS_RUG_RISK">>
        ELSE IF ~hasTwitter /\ ~hasWebsite THEN <<"WEAK_SOCIALS">> ELSE <<>>

\* generateFlags(token) at Date.now() = t: the flags in the order pushed
generateFlags(token, t) ==
    LET liq == OrZero(token.liquidity)
        buys == OrZero(token.txns24h.buys)
        sells == OrZero(token.txns24h.sells)
        totalTxns == buys + sells
        \* ageHours = (Date.now() - (pairCreatedAt || Date.now())) / HourMs
        ageMs == t - (IF OrZero(token.pairCreatedAt) # 0
                      THEN token.pairCreatedAt.v ELSE t)
        change == OrZero(token.priceChange24h)
        mcap == OrZero(token.marketCap)
    IN  (IF token.address \in PumpAddrs THEN <<"PUMP_FUN_TOKEN">> ELSE <<>>)
        \o (IF liq < 10000 THEN <<"DANGER_LOW_LIQUIDITY">>
            ELSE IF liq < 20000 THEN <<"LOW_LIQUIDITY">> ELSE <<>>)
        \o (IF sells > buys * 2 THEN <<"HEAVY_DUMPING">>
            ELSE IF sells * 10 > buys * 13 THEN <<"SELL_PRESSURE">> ELSE <<>>)
        \o (IF ageMs < HourMs THEN <<"JUST_LAUNCHED">>
            ELSE IF ageMs < 6 * HourMs THEN <<"VERY_NEW">>
            ELSE IF ageMs < 24 * HourMs THEN <<"NEW_TOKEN">> ELSE <<>>)
        \o (IF change < -50 THEN <<"CRASHING">>
            ELSE IF change < -30 THEN <<"DUMPING">>
            ELSE IF change > 300 THEN <<"ALREADY_PUMPED">>
            ELSE IF change > 100 THEN <<"HOT">> ELSE <<>>)
        \o (IF RatioGt(OrZero(token.volume24h), Max(liq, 1), 15, 1)
            THEN <<"SUSPICIOUS_VOLUME">> ELSE <<>>)
        \o (IF totalTxns < 50 THEN <<"GHOST_TOWN">>
            ELSE IF totalTxns < 100 THEN <<"LOW_ACTIVITY">> ELSE <<>>)
        \o (IF mcap > 0 /\ mcap < 25000 THEN <<"MICRO_CAP">>
            ELSE IF mcap > 0 /\ mcap < 100000 THEN <<"SMALL_CAP">> ELSE <<>>)
        \o socialFlags(token)

\* no token / no evaluation yet
NoCandidate == [address |-> ""]
NoEvaluation == [done |-> FALSE, score |-> 0, flags |-> <<>>]

\* token.score = calculateScore(token); token.flags = generateFlags(token)
Evaluate ==
    /\ candidate # NoCandidate
    /\ evaluation' = [done |-> TRUE, score |-> calculateScore(candidate),
                      flags |-> generateFlags(candidate, now)]
    /\ UNCHANGED <<engine, toolBlocks, inFlight, questionQueue, candidate, poll>>

\* ================================================================= clock
\* the part of the elapsed time made of short steps / of whole days
SmallPart(t) == (t - StartTime) % DayMs
DayPart(t) == (t - StartTime) \div DayMs
\* t is a time the bounded clock may show
ClockOk(t) == SmallPart(t) <= MaxSmall * TickMs /\ DayPart(t) <= MaxDays

\* ========================================================= what was observed
\* `last` is what the operation just performed returned, with the trace of
\* the collaborators it consulted:
\*   kind       ValidationError | NotTradable | PolicyDenied | ExecutionFailed | Success
\*   reason     the denial / error reason of the result
\*   calls      the collaborators and checks consulted, in call order
\*   rolled     a canTrade call of the operation rolled the daily window
\*   addr, dir, amount, out, price
\*              of a successful trade: the intent executed, the outputAmount
\*              the swap reported and the price looked up
\*   closed     closePosition found and removed a position; pnl is its pnlSol
\*   pnlPercent of a direct closePosition call: the pnlPercent returned
\*   success    of execute_trade: the `success` field of the JSON returned,
\*              "absent" when the object has no such field
\*   amount     of a canTrade call: its argument
\*   triggers   of a price refresh: the (address, reason) pairs told to sell
\*   probe      of a tradability check: what the probe's fetch did
BaseLast ==
    [op |-> "", kind |-> "", reason |-> "", allowed |-> FALSE, calls |-> <<>>,
     rolled |-> FALSE, addr |-> "", dir |-> "", amount |-> 0, out |-> 0,
     price |-> 0, closed |-> FALSE, pnl |-> 0, triggers |-> {}, probe |-> "",
     pnlPercent |-> Undef, success |-> "absent"]

\* the calls in flight once the call of tool op has returned
Returned(q, op) ==
    IF \E i \in 1..Len(q) : q[i] = op
    THEN LET i == CHOOSE k \in 1..Len(q) :
                      q[k] = op /\ \A j \in 1..(k - 1) : q[j] # op
         IN  SubSeq(q, 1, i - 1) \o SubSeq(q, i + 1, Len(q))
    ELSE q

\* the operation returns, leaving wallet state w and ledger pm at time t
Done(w, pm, t, l) ==
    /\ inFlight' = Returned(inFlight, l.op)
    /\ UNCHANGED <<toolBlocks, questionQueue, aside>>
    /\ now' = t
    /\ keypair' = w.keypair
    /\ lastTradeTime' = w.lastTradeTime
    /\ dailyPnl' = w.dailyPnl
    /\ dailyPnlResetTime' = w.dailyPnlResetTime
    /\ positions' = pm.positions
    /\ stopLossPercent' = pm.stopLossPercent
    /\ takeProfitPercent' = pm.takeProfitPercent
    /\ disk' = pm.disk
    /\ diskWritable' = pm.diskWritable
    /\ last' = l

\* ===================================================== TradingToolExecutor

\* what the tradability probe may answer for tokenAddress when its fetch
\* does one of probes
TradabilityChecksOf(tokenAddress, probes) ==
    {isTokenTradable(tokenAddress, probe) : probe \in probes}

\* what the tradability probe may answer for tokenAddress
TradabilityChecks(tokenAddress) == TradabilityChecksOf(tokenAddress, ProbeOutcomes)

\* what buyToken / sellToken may return when entered at time t and the swap
\* does one of outcomes (what happens, the time it takes, the output amount)
SwapResultsOf(w, direction, amount, t, outcomes) ==
    {IF direction = "buy"
     THEN buyToken(w, amount, t, x[1], x[2], x[3])
     ELSE sellToken(w, amount, t, x[1], x[2], x[3]) :
        x \in {y \in outcomes :
                    /\ y[2] = 0 \/ ClockOk(t + y[2])
                    \* the time a failing swap takes only moves the clock,
                    \* which the clock's own steps do as well
                    /\ y[1] # "ok" => y[2] = 0}}

\* what buyToken / sellToken may return when entered at time t
SwapResults(w, direction, amount, t) ==
    SwapResultsOf(w, direction, amount, t, SwapOutcomes \X Latency \X OutAmounts)

\* the DexScreener lookup after the swap: symbol and price for the record
\* (tokenAddress.slice(0, 6) and 0 when it fails)
TokenInfos(tokenAddress) ==
    {[tokenSymbol |-> IF lookup.ok THEN "TKN" ELSE tokenAddress,
      tokenPrice |-> IF lookup.ok THEN lookup.priceUsd ELSE 0] : lookup \in Lookups}

\* executeTrade(tokenAddress, direction, amount, reasoning): the execute_trade
\* tool, run to completion, for an intent whose token_address is in addrs
\* ("" is a missing one), whose amount is in amounts and whose direction is
\* in directions, while the probe's fetch does one of probes and the swap
\* one of outcomes.  Each argument is drawn where the code first reads it.
\* (stateManager.recordTrade is journaling and keeps no state of the engine.)
executeTradeIn(addrs, amounts, directions, probes, outcomes) ==
    LET l0 == [BaseLast EXCEPT !.op = "execute_trade"] IN
    \E tokenAddress \in addrs :
    IF tokenAddress = ""
    THEN Done(Wallet, Ledger, now,
              [l0 EXCEPT !.kind = "ValidationError",
                         !.reason = "token_address is required"])
    ELSE \E tradabilityCheck \in TradabilityChecksOf(tokenAddress, probes) :
      IF ~tradabilityCheck.tradable
      THEN Done(Wallet, Ledger, now,
                [l0 EXCEPT !.kind = "NotTradable", !.success = "false",
                           !.reason = tradabilityCheck.reason,
                           !.calls = <<"isTokenTradable">>])
      ELSE \E amount \in amounts :
      LET ct == canTrade(Wallet, amount, now) IN
      IF ~ct.allowed
      THEN Done(ct.w, Ledger, now,
                [l0 EXCEPT !.kind = "PolicyDenied", !.reason = ct.reason,
                           !.success = "false",
                           !.rolled = ct.rolled,
                           !.calls = <<"isTokenTradable", "canTrade">>])
      ELSE \E direction \in directions :
           \E result \in SwapResultsOf(ct.w, direction, amount, now, outcomes) :
        LET calls == <<"isTokenTradable", "canTrade">>
                     \o (IF result.dispatched THEN <<"swap">> ELSE <<>>)
                     \o <<"priceLookup">>
            \* result.outputAmount || 0
            outputAmount == IF result.outputAmount.k = "num"
                            THEN result.outputAmount.v ELSE 0
        IN
        IF ~result.success
        THEN Done(result.w, Ledger, result.t,
                  [l0 EXCEPT !.kind = "ExecutionFailed", !.reason = result.error,
                             !.success = "false",
                             !.rolled = ct.rolled, !.calls = calls])
        ELSE \E info \in TokenInfos(tokenAddress) :
          LET l1 == [l0 EXCEPT !.kind = "Success", !.allowed = TRUE,
                               !.success = "true",
                               !.rolled = ct.rolled, !.addr = tokenAddress,
                               !.dir = direction, !.amount = amount,
                               !.out = outputAmount, !.price = info.tokenPrice]
          IN
          IF direction = "buy"
          THEN Done(result.w,
                    openPosition(Ledger, tokenAddress, info.tokenSymbol,
                                 outputAmount, info.tokenPrice, amount, result.t),
                    result.t,
                    [l1 EXCEPT !.calls = calls \o <<"openPosition">>])
          ELSE LET c == closePosition(Ledger, tokenAddress, info.tokenPrice,
                                      outputAmount, result.t)
               IN  Done(result.w, c.pm, result.t,
                        [l1 EXCEPT !.closed = c.found, !.pnl = c.pnlSol,
                                   !.calls = calls \o <<"closePosition">>])

\* execute_trade for an intent whose token_address is missing or in addrs
\* and whose amount is in amounts, whatever the collaborators do
executeTrade(addrs, amounts) ==
    executeTradeIn(addrs \cup {""}, amounts, Directions, ProbeOutcomes,
                   SwapOutcomes \X Latency \X OutAmounts)

ExecuteTrade == executeTrade(Addrs, Amounts)

ExecuteTradePair == executeTrade(PairAddrs, Amounts)

\* execute_trade(buy) of an address followed to its exit, the probe and the
\* swap succeeding, while the clock still has a cooldown to go
BuyForExit ==
    /\ now + CooldownMs - StartTime <= MaxWaits * CooldownMs
    /\ executeTradeIn(ExitAddrs, Amounts, {"buy"}, {"ok_route"},
                      {"ok"} \X {0} \X ExitOutAmounts)

\* execute_trade(sell) for the full amount of an open position, the probe
\* and the swap succeeding
ExitTrade ==
    \E tokenAddress \in ExitAddrs :
        /\ hasPosition(positions, tokenAddress)
        /\ LET position == MapGet(positions, tokenAddress) IN
           executeTradeIn({tokenAddress}, {position.amount}, {"sell"},
                          {"ok_route"}, {<<"ok", 0, position.costBasis>>})

\* execute_trade for intents whose amount may be zero or negative
ExecuteTradeIntent == executeTrade(PairAddrs, IntentAmounts)

\* checkTokenTradable(tokenAddress): the check_token_tradable tool
CheckTokenTradable ==
    \E tokenAddress \in Addrs \cup {""} :
    IF tokenAddress = ""
    THEN Done(Wallet, Ledger, now,
              [BaseLast EXCEPT !.op = "check_token_tradable",
                               !.kind = "ValidationError"])
    ELSE \E probe \in ProbeOutcomes :
         LET result == isTokenTradable(tokenAddress, probe) IN
         Done(Wallet, Ledger, now,
              [BaseLast EXCEPT !.op = "check_token_tradable",
                               !.addr = tokenAddress, !.probe = probe,
                               !.allowed = result.tradable,
                               !.reason = result.reason,
                               !.calls = <<"isTokenTradable">>])

\* checkCanTrade(amount): the check_can_trade tool; also a direct canTrade call
CheckCanTrade ==
    \E amount \in Amounts :
        LET result == canTrade(Wallet, amount, now) IN
        Done(result.w, Ledger, now,
             [BaseLast EXCEPT !.op = "canTrade", !.amount = amount,
                              !.allowed = result.allowed, !.reason = result.reason,
                              !.rolled = result.rolled, !.calls = <<"canTrade">>])

\* what the price fetch of one position may give during a refresh
RefreshLookups ==
    {[ok |-> FALSE, priceUsd |-> 0]} \cup {[ok |-> TRUE, priceUsd |-> p] : p \in RefreshPrices}

\* the loop of checkStopLossTakeProfit / getPositions over the snapshot
\* getAllPositions() took: entry i is refreshed when its fetch f[i] succeeded.
\* Returns the ledger and the triggers collected from entry i on.
RECURSIVE RefreshFrom(_, _, _, _)
RefreshFrom(pm, snapshot, f, i) ==
    IF i > Len(snapshot)
    THEN [pm |-> pm, triggers |-> {}]
    ELSE IF ~f[i].ok
    THEN RefreshFrom(pm, snapshot, f, i + 1)
    ELSE LET result == updatePrice(pm, snapshot[i].key, f[i].priceUsd)
             rest == RefreshFrom(result.pm, snapshot, f, i + 1)
         IN  [pm |-> rest.pm,
              triggers |-> rest.triggers \cup
                  (IF result.shouldSell
                   THEN {<<snapshot[i].key, result.reason>>} ELSE {})]

\* checkStopLossTakeProfit(): the check_stop_loss_take_profit tool
CheckStopLossTakeProfit ==
    /\ positions # <<>>
    /\ \E f \in [1..Len(positions) -> RefreshLookups] :
        LET r == RefreshFrom(Ledger, positions, f, 1) IN
        Done(Wallet, r.pm, now,
             [BaseLast EXCEPT !.op = "check_stop_loss_take_profit",
                              !.calls = <<"updatePrice">>,
                              !.triggers = r.triggers])

\* setStopLoss(tokenAddress, stopLossPercent): the set_stop_loss tool; the
\* position object is changed in memory, nothing is written to the file
setStopLoss(pm, tokenAddress, pct) ==
    IF ~MapHas(pm.positions, tokenAddress)
    THEN [found |-> FALSE, pm |-> pm]
    ELSE LET position == MapGet(pm.positions, tokenAddress) IN
         [found |-> TRUE,
          pm |-> [pm EXCEPT !.positions =
                    MapSet(pm.positions, tokenAddress,
                           [position EXCEPT !.stopLoss =
                                StopLossOf(position.entryPrice, pct)])]]

\* setTakeProfit(tokenAddress, takeProfitPercent): the set_take_profit tool
setTakeProfit(pm, tokenAddress, pct) ==
    IF ~MapHas(pm.positions, tokenAddress)
    THEN [found |-> FALSE, pm |-> pm]
    ELSE LET position == MapGet(pm.positions, tokenAddress) IN
         [found |-> TRUE,
          pm |-> [pm EXCEPT !.positions =
                    MapSet(pm.positions, tokenAddress,
                           [position EXCEPT !.takeProfit =
                                TakeProfitOf(position.entryPrice, pct)])]]

SetStopLoss ==
    \E tokenAddress \in PairAddrs, pct \in ThresholdPercents :
        LET r == setStopLoss(Ledger, tokenAddress, pct) IN
        Done(Wallet, r.pm, now,
             [BaseLast EXCEPT !.op = "set_stop_loss", !.addr = tokenAddress,
                              !.allowed = r.found])

SetTakeProfit ==
    \E tokenAddress \in PairAddrs, pct \in ThresholdPercents :
        LET r == setTakeProfit(Ledger, tokenAddress, pct) IN
        Done(Wallet, r.pm, now,
             [BaseLast EXCEPT !.op = "set_take_profit", !.addr = tokenAddress,
                              !.allowed = r.found])

\* time passes between two operations
Tick ==
    /\ ClockOk(now + TickMs)
    /\ Done(Wallet, Ledger, now + TickMs, [BaseLast EXCEPT !.op = "tick"])

DayPasses ==
    /\ ClockOk(now + DayMs)
    /\ Done(Wallet, Ledger, now + DayMs, [BaseLast EXCEPT !.op = "tick"])

\* the agent waits one cooldown before its next tool call
CooldownPasses ==
    /\ now + CooldownMs - StartTime <= MaxWaits * CooldownMs
    /\ Done(Wallet, Ledger, now + CooldownMs, [BaseLast EXCEPT !.op = "tick"])

\* ======================================= direct calls of the wallet's API
\* updateDailyPnl(pnlSol), called on the wallet
UpdateDailyPnl ==
    \E pnlSol \in PnlValues :
        /\ dailyPnl + pnlSol >= -MaxAbsPnl
        /\ dailyPnl + pnlSol <= MaxAbsPnl
        /\ Done(updateDailyPnl(Wallet, pnlSol), Ledger, now,
                [BaseLast EXCEPT !.op = "updateDailyPnl", !.pnl = pnlSol])

\* buyToken / sellToken called on the wallet, bypassing the executor
WalletSwap ==
    \E direction \in Directions, amount \in Amounts :
    \E result \in SwapResults(Wallet, direction, amount, now) :
        Done(result.w, Ledger, result.t,
             [BaseLast EXCEPT !.op = "executeSwap",
                              !.kind = IF result.success THEN "Success"
                                       ELSE "ExecutionFailed",
                              !.allowed = result.success,
                              !.reason = result.error,
                              !.rolled = result.w.dailyPnlResetTime # dailyPnlResetTime,
                              !.dir = direction, !.amount = amount,
                              !.calls = <<"canTrade">> \o
                                  (IF result.dispatched THEN <<"swap">> ELSE <<>>)])

\* ================================= direct calls of the PositionManager's API
\* openPosition(tokenAddress, tokenSymbol, amount, entryPrice, costBasis)
OpenPosition ==
    \E tokenAddress \in LedgerAddrs, a \in OpenArgs :
        Done(Wallet,
             openPosition(Ledger, tokenAddress, a.tokenSymbol, a.amount,
                          a.entryPrice, a.costBasis, now),
             now,
             [BaseLast EXCEPT !.op = "openPosition", !.addr = tokenAddress,
                              !.kind = IF hasPosition(positions, tokenAddress)
                                       THEN "replaced" ELSE "opened",
                              !.amount = a.costBasis, !.out = a.amount,
                              !.price = a.entryPrice])

\* closePosition(tokenAddress, exitPrice, soldAmount)
ClosePosition ==
    \E tokenAddress \in LedgerAddrs, exitPrice \in LedgerPrices,
       soldAmount \in SoldAmounts :
        LET c == closePosition(Ledger, tokenAddress, exitPrice, soldAmount, now) IN
        Done(Wallet, c.pm, now,
             [BaseLast EXCEPT !.op = "closePosition", !.addr = tokenAddress,
                              !.closed = c.found, !.pnl = c.pnlSol,
                              !.pnlPercent = c.pnlPercent,
                              !.kind = IF c.found THEN "closed" ELSE "null",
                              !.out = soldAmount, !.price = exitPrice])

\* updatePrice(tokenAddress, currentPrice)
UpdatePrice ==
    \E tokenAddress \in LedgerAddrs, currentPrice \in LedgerPrices :
        LET r == updatePrice(Ledger, tokenAddress, currentPrice) IN
        Done(Wallet, r.pm, now,
             [BaseLast EXCEPT !.op = "updatePrice", !.addr = tokenAddress,
                              !.price = currentPrice, !.reason = r.reason,
                              !.allowed = r.shouldSell])

\* the process is started again: new PositionManager(15, 50)
Restart ==
    Done(Wallet,
         NewPositionManager(DefaultStopLossPercent, DefaultTakeProfitPercent, Ledger),
         now, [BaseLast EXCEPT !.op = "restart"])

\* the ledger is serialized and restored: PositionManager.fromJSON(pm.toJSON())
\* becomes the ledger
FromJSON ==
    Done(Wallet, fromJSON(toJSON(Ledger), Ledger), now,
         [BaseLast EXCEPT !.op = "fromJSON"])

\* data/positions.json stops being writable (writeFileSync throws) or is
\* writable again
DiskFault ==
    Done(Wallet, [Ledger EXCEPT !.diskWritable = ~@], now,
         [BaseLast EXCEPT !.op = "disk"])

\* ============================================================ TradingAgent
\* client.messages.create returns a response with tool_use blocks; the loop
\* asks for it only when every block of the previous one has been executed
Respond ==
    /\ toolBlocks = <<>>
    /\ inFlight = <<>>
    /\ \E blocks \in ToolResponses : toolBlocks' = blocks
    /\ UNCHANGED <<engine, inFlight, questionQueue, aside>>

\* faulty variant of InvokeTool: the call is not awaited, the loop goes on to
\* the next block while it runs
InvokeToolNoAwait ==
    /\ toolBlocks # <<>>
    /\ inFlight' = Append(inFlight, Head(toolBlocks))
    /\ toolBlocks' = Tail(toolBlocks)
    /\ UNCHANGED <<engine, questionQueue, aside>>

\* for (const block of toolBlocks) toolResult = await toolExecutor.execute(...):
\* the next block is taken up when the call of the previous one has returned
InvokeTool ==
    /\ toolBlocks # <<>>
    /\ inFlight = <<>>
    /\ inFlight' = Append(inFlight, Head(toolBlocks))
    /\ toolBlocks' = Tail(toolBlocks)
    /\ UNCHANGED <<engine, questionQueue, aside>>

\* an execute_trade call in flight runs and returns
ReturnExecuteTrade ==
    /\ \E i \in 1..Len(inFlight) : inFlight[i] = "execute_trade"
    /\ ExecuteTradePair

\* a check_can_trade call in flight runs and returns
ReturnCheckCanTrade ==
    /\ \E i \in 1..Len(inFlight) : inFlight[i] = "check_can_trade"
    /\ CheckCanTrade

\* addQuestion(question, from), called by the websocket handler at any time:
\* the oldest question is dropped when the queue is full
addQuestion(queue) ==
    LET shifted == IF queue >= MaxQueue THEN queue - 1 ELSE queue
    IN  shifted + 1

\* the websocket handler calls addQuestion
AddQuestion ==
    /\ questionQueue' = addQuestion(questionQueue)
    /\ UNCHANGED <<engine, toolBlocks, inFlight, aside>>

\* ========================================================== VotingManager
\* the keys of TRADING_STYLES and of voteCounts, in their order
Styles == <<"APE", "DIAMOND", "PAPER", "RESEARCH", "DEGEN">>

\* TRADING_STYLES[style] is truthy: also for a key every object inherits
isStyleKey(style) ==
    \/ \E i \in 1..Len(Styles) : Styles[i] = style
    \/ style = "constructor"

\* voteCounts after the counting loop, for the five styles
voteCounts(m) ==
    [style \in {Styles[i] : i \in 1..Len(Styles)} |->
        Cardinality({i \in 1..Len(m) : m[i].value.style = style})]

\* the loop over Object.entries(voteCounts): a count replaces the winner
\* only if it is greater than the greatest so far. The count of any other
\* key is NaN, which is greater than nothing.
RECURSIVE findWinner(_, _, _, _)
findWinner(counts, i, winner, maxVotes) ==
    IF i > Len(Styles)
    THEN [winner |-> winner, maxVotes |-> maxVotes]
    ELSE IF counts[Styles[i]] > maxVotes
    THEN findWinner(counts, i + 1, Styles[i], counts[Styles[i]])
    ELSE findWinner(counts, i + 1, winner, maxVotes)

\* vote(visitorId, style)
vote(m, visitorId, style, t) ==
    IF ~isStyleKey(style)
    THEN [success |-> FALSE, votes |-> m]
    ELSE [success |-> TRUE,
          votes |-> MapSet(m, visitorId,
                           [visitorId |-> visitorId, style |-> style,
                            timestamp |-> t])]

\* a vote message arrives on the websocket
Vote ==
    \E visitorId \in Visitors, style \in VoteStyles :
        LET r == vote(votes, visitorId, style, now) IN
        /\ votes' = r.votes
        /\ last' = [BaseLast EXCEPT !.op = "vote", !.addr = visitorId,
                                    !.dir = style, !.allowed = r.success]
        /\ UNCHANGED <<now, keypair, lastTradeTime, dailyPnl, dailyPnlResetTime,
                       positions, stopLossPercent, takeProfitPercent, disk,
                       diskWritable, toolBlocks, inFlight, questionQueue,
                       candidate, evaluation, currentStyle, voteEndTime>>

\* tallyVotes(), run by the interval timer; index.ts registers the
\* style-change callback, which queues a question for the agent
TallyVotes ==
    LET r == findWinner(voteCounts(votes), 1, "APE", 0) IN
    /\ currentStyle' = r.winner
    /\ questionQueue' = IF currentStyle # r.winner
                        THEN addQuestion(questionQueue) ELSE questionQueue
    /\ votes' = <<>>
    /\ voteEndTime' = now + VotingPeriodMs
    /\ last' = [BaseLast EXCEPT !.op = "tallyVotes", !.dir = r.winner,
                                !.amount = r.maxVotes]
    /\ UNCHANGED <<now, keypair, lastTradeTime, dailyPnl, dailyPnlResetTime,
                   positions, stopLossPercent, takeProfitPercent, disk,
                   diskWritable, toolBlocks, inFlight, candidate, evaluation>>

\* analyzeMarket, after the tool loop: a queued question may be answered
TakeQuestion ==
    /\ toolBlocks = <<>>
    /\ inFlight = <<>>
    /\ questionQueue > 0
    /\ questionQueue' = questionQueue - 1
    /\ UNCHANGED <<engine, toolBlocks, inFlight, aside>>

\* ================================================================== system
\* new SolanaWallet() and new PositionManager(15, 50) with no positions file
InitEngine ==
    /\ now = StartTime
    /\ keypair \in BOOLEAN
    /\ lastTradeTime = 0
    /\ dailyPnl = 0
    /\ dailyPnlResetTime = StartTime
    /\ disk = NoFile
    /\ diskWritable = TRUE
    /\ positions = <<>>
    /\ stopLossPercent = DefaultStopLossPercent
    /\ takeProfitPercent = DefaultTakeProfitPercent
    /\ last = [BaseLast EXCEPT !.op = "init"]
    /\ toolBlocks = <<>>
    /\ inFlight = <<>>
    /\ questionQueue = 0

\* new VotingManager()
InitPoll ==
    /\ votes = <<>>
    /\ currentStyle = "APE"
    /\ voteEndTime = StartTime + VotingPeriodMs

\* no token has been given to the scorer
Init ==
    /\ InitEngine
    /\ InitPoll
    /\ candidate = NoCandidate
    /\ evaluation = NoEvaluation

\* the agent's tool loop: one tool call at a time, run to completion
Next ==
    \/ ExecuteTrade
    \/ CheckCanTrade
    \/ CheckStopLossTakeProfit
    \/ Tick
    \/ DayPasses

Spec == Init /\ [][Next]_vars

\* trading and the safety gate, for intents naming two addresses
NextPair ==
    \/ ExecuteTradePair
    \/ CheckCanTrade
    \/ Tick
    \/ DayPasses

SpecPair == Init /\ [][NextPair]_vars

\* trading and price refreshes, one cooldown apart, for intents naming two
\* addresses
NextLife ==
    \/ ExecuteTradePair
    \/ CheckStopLossTakeProfit
    \/ CooldownPasses

SpecLife == Init /\ [][NextLife]_vars

\* one trade, then the thresholds are set and the prices refreshed
NextThresholds ==
    \/ ExecuteTradePair
    \/ SetStopLoss
    \/ SetTakeProfit
    \/ CheckStopLossTakeProfit

SpecThresholds == Init /\ [][NextThresholds]_vars

\* the executor given intents that may be malformed
NextIntent ==
    \/ ExecuteTradeIntent
    \/ CheckTokenTradable
    \/ Tick

SpecIntent == Init /\ [][NextIntent]_vars

\* the SolanaWallet alone, its public methods called directly
NextWallet ==
    \/ CheckCanTrade
    \/ UpdateDailyPnl
    \/ WalletSwap
    \/ Tick
    \/ DayPasses

SpecWallet == Init /\ [][NextWallet]_vars

\* the PositionManager alone, its public methods called directly
NextLedger ==
    \/ OpenPosition
    \/ ClosePosition
    \/ UpdatePrice
    \/ Restart
    \/ Tick

SpecLedger == Init /\ [][NextLedger]_vars

\* the PositionManager over a file whose writes may fail
NextDisk ==
    \/ OpenPosition
    \/ ClosePosition
    \/ FromJSON
    \/ DiskFault

SpecDisk == Init /\ [][NextDisk]_vars

\* trades, threshold settings and price refreshes, with restarts in between
NextDurable ==
    \/ ExecuteTradePair
    \/ SetStopLoss
    \/ SetTakeProfit
    \/ CheckStopLossTakeProfit
    \/ Restart

SpecDurable == Init /\ [][NextDurable]_vars

\* a position is bought, its price refreshed, and sold in full; the sell
\* intent is issued again and again and the cooldown is left to elapse
NextExit ==
    \/ BuyForExit
    \/ CheckStopLossTakeProfit
    \/ ExitTrade
    \/ CooldownPasses

SpecExit ==
    /\ Init
    /\ [][NextExit]_vars
    /\ WF_vars(ExitTrade)
    /\ WF_vars(CooldownPasses)

\* the scorer given one token
InitScore ==
    /\ InitEngine
    /\ InitPoll
    /\ candidate \in ScoreCandidates
    /\ evaluation = NoEvaluation

NextScore == Evaluate

SpecScore == InitScore /\ [][NextScore]_vars

\* the scorer given one token, again and again as time passes
InitAge ==
    /\ InitEngine
    /\ InitPoll
    /\ candidate \in AgeCandidates
    /\ evaluation = NoEvaluation

NextAge ==
    \/ Evaluate
    \/ DayPasses

SpecAge == InitAge /\ [][NextAge]_vars

\* the voting manager: votes arrive and the timer tallies them
NextVote ==
    \/ Vote
    \/ TallyVotes

SpecVote == Init /\ [][NextVote]_vars

\* the agent: its tool loop, the websocket handler and the clock
NextAgent ==
    \/ Respond
    \/ InvokeTool
    \/ ReturnExecuteTrade
    \/ ReturnCheckCanTrade
    \/ AddQuestion
    \/ TakeQuestion
    \/ CooldownPasses

SpecAgent == Init /\ [][NextAgent]_vars

\* ================================================================ properties
\* the decision just returned was one of the three refusals after validation
Refused(l) ==
    /\ l.op = "execute_trade"
    /\ l.kind \in {"NotTradable", "PolicyDenied", "ExecutionFailed"}

\* the decision just returned executed a trade in direction d
Executed(l, d) == l.op = "execute_trade" /\ l.kind = "Success" /\ l.dir = d

\* collaborator c was consulted by the operation just performed
Consulted(l, c) == \E i \in 1..Len(l.calls) : l.calls[i] = c

\* C1 (as stated): a decision that ends NotTradable, PolicyDenied or
\* ExecutionFailed leaves the ledger, lastTradeTime, dailyPnl and
\* dailyPnlResetTime exactly as they were.
C1_FrameAsStated ==
    [][Refused(last') =>
        /\ positions' = positions
        /\ lastTradeTime' = lastTradeTime
        /\ dailyPnl' = dailyPnl
        /\ dailyPnlResetTime' = dailyPnlResetTime]_vars

\* C1 (amended): a refused decision leaves the ledger and lastTradeTime as
\* they were; dailyPnl and dailyPnlResetTime are as they were when the token
\* is not tradable or canTrade denies, and after a failed execution they are
\* either as they were or, when the window was more than a day old at the
\* canTrade check, rolled (dailyPnl = 0, dailyPnlResetTime = time of the check).
C1_Frame ==
    [][Refused(last') =>
        /\ positions' = positions
        /\ lastTradeTime' = lastTradeTime
        /\ \/ dailyPnl' = dailyPnl /\ dailyPnlResetTime' = dailyPnlResetTime
           \/ /\ last'.kind = "ExecutionFailed"
              /\ now - dailyPnlResetTime > DayMs
              /\ dailyPnl' = 0
              /\ dailyPnlResetTime' = now]_vars

\* a swap failed after canTrade had rolled the window, with a position open
C1_Witness ==
    /\ last.op = "execute_trade"
    /\ last.kind = "ExecutionFailed"
    /\ Consulted(last, "swap")
    /\ last.rolled
    /\ positions # <<>>

\* C2 (as stated): a buy is never executed while the number of open
\* positions is at or above maxPositions, and the number of open positions
\* never exceeds maxPositions.
C2_PositionLimit ==
    [][/\ Executed(last', "buy") => getPositionCount(positions) < MaxPositions
       /\ getPositionCount(positions') <= MaxPositions]_vars

\* C3 (as stated): the swap is dispatched only after validation, isTradable,
\* canTrade and the position limit, in that order, have all passed; a token
\* that is not tradable is reported NotTradable without consulting canTrade.
C3_FixedOrder ==
    [][last'.op = "execute_trade" =>
        /\ Consulted(last', "canTrade") =>
              /\ Len(last'.calls) >= 2
              /\ last'.calls[1] = "isTokenTradable"
              /\ last'.calls[2] = "canTrade"
        /\ Consulted(last', "swap") =>
              /\ Len(last'.calls) >= 3
              /\ last'.calls[3] = "swap"
              /\ canTrade(Wallet, MaxTradeSize, now).allowed
        /\ last'.kind = "NotTradable" => last'.calls = <<"isTokenTradable">>
        /\ Executed(last', "buy") => getPositionCount(positions) < MaxPositions]_vars

\* C4: per address the ledger goes from NONE to OPEN only by a successful buy
\* of that address and from OPEN to NONE only by a successful sell of it; a
\* price refresh keeps every address as it was; a refused decision changes no
\* position; a successful buy leaves the address OPEN with an entry made of
\* the new trade only (its price, time, cost basis, amount, no current price)
\* and a successful sell leaves the address NONE.
C4_Lifecycle ==
    [][/\ \A a \in Addrs :
            /\ (~hasPosition(positions, a) /\ hasPosition(positions', a))
                  => (Executed(last', "buy") /\ last'.addr = a)
            /\ (hasPosition(positions, a) /\ ~hasPosition(positions', a))
                  => (Executed(last', "sell") /\ last'.addr = a)
            /\ last'.op = "check_stop_loss_take_profit"
                  => (hasPosition(positions', a) <=> hasPosition(positions, a))
       /\ Refused(last') => positions' = positions
       /\ Executed(last', "sell") => ~hasPosition(positions', last'.addr)
       /\ Executed(last', "buy") =>
            /\ hasPosition(positions', last'.addr)
            /\ LET p == MapGet(positions', last'.addr) IN
                /\ p.entryPrice = last'.price
                /\ p.entryTime = now'
                /\ p.costBasis = last'.amount
                /\ p.amount = last'.out
                /\ p.currentPrice = Undef
                /\ p.unrealizedPnlPercent = Undef]_vars

\* a successful sell closed one position while another address stays open
C4_Witness ==
    /\ Executed(last, "sell")
    /\ last.closed
    /\ ~hasPosition(positions, last.addr)
    /\ positions # <<>>

\* C5: the ledger never holds two positions under one address; openPosition
\* on an address that already has a position replaces it without growing the
\* count, and the stored position carries the new call's amount, entry price
\* and cost basis.
C5_OnePerAddress ==
    [][/\ \A a \in LedgerAddrs : Cardinality(IndicesOf(positions', a)) <= 1
       /\ last'.op = "openPosition" =>
            /\ hasPosition(positions', last'.addr)
            /\ hasPosition(positions, last'.addr)
                  => getPositionCount(positions') = getPositionCount(positions)
            /\ LET p == MapGet(positions', last'.addr) IN
                /\ p.amount = last'.out
                /\ p.entryPrice = last'.price
                /\ p.costBasis = last'.amount
                /\ p.entryTime = now']_vars

\* openPosition replaced the position of an address, and the stored position
\* is the one of the new call, while a second address is open
C5_Witness ==
    /\ last.op = "openPosition"
    /\ last.kind = "replaced"
    /\ getPositionCount(positions) = 2
    /\ MapGet(positions, last.addr).entryPrice = 200
    /\ MapGet(positions, last.addr).currentPrice = Undef

\* C6: a canTrade call made less than cooldownMs after lastTradeTime denies
\* (and a decision consulting it then ends PolicyDenied without a swap);
\* lastTradeTime changes only by a successful execution, which stamps it with
\* the completion time, at least cooldownMs after the previous one; a refused
\* decision leaves lastTradeTime alone.
C6_Cooldown ==
    [][/\ (last'.op = "canTrade" /\ now - lastTradeTime < CooldownMs)
            => ~last'.allowed
       /\ (last'.op = "execute_trade" /\ Consulted(last', "canTrade")
             /\ now - lastTradeTime < CooldownMs)
            => (last'.kind = "PolicyDenied" /\ ~Consulted(last', "swap"))
       /\ lastTradeTime' # lastTradeTime =>
            /\ last'.op = "execute_trade" /\ last'.kind = "Success"
            /\ lastTradeTime' = now'
            /\ lastTradeTime' - lastTradeTime >= CooldownMs
       /\ (last'.op = "execute_trade" /\ last'.kind = "Success")
            => lastTradeTime' = now'
       /\ Refused(last') => lastTradeTime' = lastTradeTime]_vars

\* a decision was denied by the cooldown of an earlier successful execution
C6_Witness ==
    /\ last.op = "execute_trade"
    /\ last.kind = "PolicyDenied"
    /\ last.reason = "cooldown"
    /\ lastTradeTime >= StartTime
    /\ now - lastTradeTime < CooldownMs

\* C7: when the wallet is ready, the amount is within maxTradeSize and the
\* cooldown has elapsed, canTrade denies exactly when dailyPnl, taken as 0 if
\* the window is more than a day old, is strictly below -dailyLossLimit; a
\* loss of exactly dailyLossLimit is allowed.
C7_DailyLoss ==
    [][(/\ last'.op = "canTrade"
        /\ keypair
        /\ last'.amount <= MaxTradeSize
        /\ now - lastTradeTime >= CooldownMs)
       => LET pnl == IF now - dailyPnlResetTime > DayMs THEN 0 ELSE dailyPnl IN
          /\ last'.allowed <=> ~(pnl < -DailyLossLimit)
          /\ ~last'.allowed => last'.reason = "daily_loss"
          /\ pnl = -DailyLossLimit => last'.allowed]_vars

\* canTrade denied for the daily loss after two losses of 0.6 SOL
C7_Witness ==
    /\ last.op = "canTrade"
    /\ ~last.allowed
    /\ last.reason = "daily_loss"
    /\ dailyPnl = -12

\* C8 (as stated): a successful sell that closes a position adds its pnl
\* (proceeds - cost basis) to dailyPnl; a successful buy leaves dailyPnl as
\* it was.
C8_PnlBooked ==
    [][/\ (Executed(last', "sell") /\ last'.closed)
            => (/\ last'.pnl = last'.out - MapGet(positions, last'.addr).costBasis
                /\ dailyPnl' = (IF last'.rolled THEN 0 ELSE dailyPnl) + last'.pnl)
       /\ Executed(last', "buy")
            => dailyPnl' = (IF last'.rolled THEN 0 ELSE dailyPnl)]_vars

C10_ShortCircuit ==
    [][last'.op = "canTrade" =>
        LET pnl == IF now - dailyPnlResetTime > DayMs THEN 0 ELSE dailyPnl
            first ==
                IF ~keypair THEN "wallet_not_loaded"
                ELSE IF last'.amount > MaxTradeSize THEN "exceeds_max"
                ELSE IF now - lastTradeTime < CooldownMs THEN "cooldown"
                ELSE IF pnl < -DailyLossLimit THEN "daily_loss"
                ELSE ""
        IN  /\ last'.reason = first
            /\ last'.allowed <=> first = ""]_vars

\* canTrade answered "exceeds max" while the cooldown was active and the
\* daily loss was beyond the limit
C10_Witness ==
    /\ last.op = "canTrade"
    /\ last.reason = "exceeds_max"
    /\ keypair
    /\ now - lastTradeTime < CooldownMs
    /\ dailyPnl < -DailyLossLimit
    /\ now - dailyPnlResetTime <= DayMs

\* C11 (as stated): an intent whose address is missing or whose amount is
\* zero or negative is rejected with a validation error before any probe,
\* policy check or swap; so no trade with such an amount is ever executed.
C11_Validation ==
    [][last'.op = "execute_trade" =>
        /\ last'.kind = "ValidationError" => last'.calls = <<>>
        /\ last'.kind = "Success" => (last'.addr # "" /\ last'.amount > 0)]_vars

\* C12 (as stated): isTokenTradable answers tradable exactly when the probe
\* got a response without error and with a non-empty route; every other
\* outcome, a network failure included, answers not tradable with a reason.
C12_Tradable ==
    [][(last'.op = "check_token_tradable" /\ last'.addr # "") =>
        /\ last'.allowed <=> last'.probe = "ok_route"
        /\ ~last'.allowed => last'.reason # ""]_vars

\* C13 (as stated): a price refresh that gives an open position a new
\* current price tells to sell it for 'stop_loss' whenever that price is at
\* or below its stopLoss, otherwise for 'take_profit' whenever the price is
\* at or above its takeProfit, otherwise not at all; whatever the thresholds
\* were set to.
C13_Precedence ==
    [][last'.op = "check_stop_loss_take_profit" =>
        \A i \in 1..Len(positions) :
            LET p == positions[i].value
                q == positions'[i].value
                addr == positions[i].key
            IN  (q.currentPrice # p.currentPrice) =>
                    IF q.currentPrice.v <= p.stopLoss
                    THEN <<addr, "stop_loss">> \in last'.triggers
                    ELSE IF q.currentPrice.v >= p.takeProfit
                    THEN <<addr, "take_profit">> \in last'.triggers
                    ELSE /\ <<addr, "stop_loss">> \notin last'.triggers
                         /\ <<addr, "take_profit">> \notin last'.triggers]_vars

\* C14 (as stated): every position a successful buy opens has
\* stopLoss = entryPrice * (1 - stopLossPercent / 100) and
\* takeProfit = entryPrice * (1 + takeProfitPercent / 100), and these lie
\* strictly either side of the entry price: stopLoss < entryPrice < takeProfit
\* (the percentages are 15 and 50, both positive).
C14_Thresholds ==
    [][Executed(last', "buy") =>
        LET p == MapGet(positions', last'.addr) IN
            /\ stopLossPercent > 0 /\ takeProfitPercent > 0
            /\ p.stopLoss = StopLossOf(p.entryPrice, stopLossPercent)
            /\ p.takeProfit = TakeProfitOf(p.entryPrice, takeProfitPercent)
            /\ p.stopLoss < p.entryPrice
            /\ p.entryPrice < p.takeProfit]_vars

\* C15 (as stated): in every reachable state every position of the ledger
\* has entryPrice > 0 and amount > 0.
C15_PositiveEntry ==
    \A i \in 1..Len(positions) :
        /\ positions[i].value.entryPrice > 0
        /\ positions[i].value.amount > 0

C18_RoundTrip ==
    [][last'.op = "fromJSON" =>
        UNCHANGED <<positions, stopLossPercent, takeProfitPercent>>]_vars

\* C20: when the write of the positions file fails during openPosition or
\* closePosition, the operation still returns its normal result and the
\* ledger in memory keeps the change (the position is there after an open,
\* gone after a close, the P&L is returned); the file is left as it was.
C20_WriteFailureKept ==
    [][~diskWritable =>
        /\ last'.op = "openPosition" =>
            /\ last'.kind \in {"opened", "replaced"}
            /\ hasPosition(positions', last'.addr)
            /\ MapGet(positions', last'.addr).costBasis = last'.amount
            /\ MapGet(positions', last'.addr).entryTime = now
            /\ disk' = disk
        /\ (last'.op = "closePosition" /\ hasPosition(positions, last'.addr)) =>
            /\ last'.closed
            /\ last'.pnl = last'.out - MapGet(positions, last'.addr).costBasis
            /\ ~hasPosition(positions', last'.addr)
            /\ disk' = disk]_vars

\* a position was closed while the file could not be written: the file
\* still lists it, the ledger in memory does not
C20_Witness ==
    /\ ~diskWritable
    /\ last.op = "closePosition"
    /\ last.closed
    /\ ~hasPosition(positions, last.addr)
    /\ disk.exists
    /\ hasPosition(disk.positions, last.addr)

\* execute_trade calls in flight
TradesInFlight(q) == {i \in 1..Len(q) : q[i] = "execute_trade"}

\* C19: trade decisions are processed one at a time to completion: never
\* are two execute_trade calls in flight, and while one is in flight the
\* wallet's safety state, the ledger and its file change only by the step in
\* which that call itself returns (no other task touches them between its
\* canTrade check and its ledger update).
C19_OneAtATime ==
    [][/\ Cardinality(TradesInFlight(inFlight')) <= 1
       /\ (/\ TradesInFlight(inFlight) # {}
           /\ <<keypair, lastTradeTime, dailyPnl, dailyPnlResetTime, positions,
                stopLossPercent, takeProfitPercent, disk>>' #
              <<keypair, lastTradeTime, dailyPnl, dailyPnlResetTime, positions,
                stopLossPercent, takeProfitPercent, disk>>)
          => /\ last'.op = "execute_trade"
             /\ inFlight = <<"execute_trade">>
             /\ inFlight' = <<>>]_vars

\* the second execute_trade of a response is in flight, after the first one
\* has returned having opened a position
C19_Witness ==
    /\ inFlight = <<"execute_trade">>
    /\ toolBlocks = <<>>
    /\ Executed(last, "buy")
    /\ positions # <<>>

\* C21 (as stated): every result of execute_trade carries an explicit
\* success flag and, when unsuccessful, one failure kind among
\* ValidationError, NotTradable, PolicyDenied and ExecutionFailed together
\* with a reason.
C21_Structured ==
    [][last'.op = "execute_trade" =>
        /\ last'.success \in {"true", "false"}
        /\ last'.success = "true" <=> last'.kind = "Success"
        /\ last'.success = "false" =>
            /\ last'.kind \in {"ValidationError", "NotTradable",
                               "PolicyDenied", "ExecutionFailed"}
            /\ last'.reason # ""]_vars

\* C22: the score computed for any candidate, including one with every
\* field missing and one hitting every bonus or every penalty at once,
\* satisfies 0 <= score <= 100.
C22_ScoreRange ==
    evaluation.done => (0 <= evaluation.score /\ evaluation.score <= 100)

\* a candidate hitting every penalty at once (the sum is 50 - 130) has been
\* scored 0
C22_Witness ==
    /\ evaluation.done
    /\ calculateScoreUnclamped(candidate) = -80
    /\ evaluation.score = 0

\* The table of adjustments, one row group per signal.  A denominator of 0
\* counts as 1; a range "a-b" is a < x <= b.
AdjVolLiq(c) ==
    LET v == OrZero(c.volume24h)
        l == IF OrZero(c.liquidity) = 0 THEN 1 ELSE OrZero(c.liquidity)
    IN  CASE v > 10 * l                       -> -15
          [] v > 3 * l /\ v <= 10 * l         -> 15
          [] 2 * v > 3 * l /\ v <= 3 * l      -> 10
          [] 2 * v > l /\ 2 * v <= 3 * l      -> 5
          [] 2 * v <= l                       -> -5

AdjBuyRatio(c) ==
    LET b == OrZero(c.txns24h.buys)
        n == IF b + OrZero(c.txns24h.sells) = 0 THEN 1
             ELSE b + OrZero(c.txns24h.sells)
    IN  CASE 100 * b > 65 * n                      -> 15
          [] 100 * b > 55 * n /\ 100 * b <= 65 * n -> 10
          [] 100 * b > 45 * n /\ 100 * b <= 55 * n -> 0
          [] 100 * b >= 35 * n /\ 100 * b <= 45 * n -> -10
          [] 100 * b < 35 * n                      -> -20

\* the price-change rows as the table has them
AdjPriceChangeAsStated(c) ==
    LET x == OrZero(c.priceChange24h)
    IN  CASE x > 200              -> -10
          [] x > 50 /\ x <= 200   -> 5
          [] x > 10 /\ x <= 50    -> 10
          [] x > -10 /\ x <= 10   -> 5
          [] x >= -30 /\ x <= -10 -> -15
          [] x < -30              -> -25

\* the price-change rows with the two lowest ones at -30 and -50, and no
\* adjustment from -30 to -10
AdjPriceChange(c) ==
    LET x == OrZero(c.priceChange24h)
    IN  CASE x > 200              -> -10
          [] x > 50 /\ x <= 200   -> 5
          [] x > 10 /\ x <= 50    -> 10
          [] x > -10 /\ x <= 10   -> 5
          [] x >= -30 /\ x <= -10 -> 0
          [] x >= -50 /\ x < -30  -> -15
          [] x < -50              -> -25

AdjLiquidity(c) ==
    LET l == OrZero(c.liquidity)
    IN  CASE l > 500000                -> 20
          [] l > 200000 /\ l <= 500000 -> 15
          [] l > 100000 /\ l <= 200000 -> 10
          [] l > 50000 /\ l <= 100000  -> 5
          [] l > 20000 /\ l <= 50000   -> 0
          [] l <= 20000                -> -10

AdjVolume(c) ==
    LET v == OrZero(c.volume24h)
    IN  CASE v > 500000                -> 15
          [] v > 200000 /\ v <= 500000 -> 10
          [] v > 100000 /\ v <= 200000 -> 5
          [] v <= 100000               -> 0

AdjMarketCap(c) ==
    LET m == OrZero(c.marketCap)
    IN  CASE m > 0 /\ m < 50000 -> -20
          [] m > 10000000       -> 10
          [] OTHER              -> 0

AdjTxns(c) ==
    LET n == OrZero(c.txns24h.buys) + OrZero(c.txns24h.sells)
    IN  CASE n > 1000             -> 10
          [] n > 500 /\ n <= 1000 -> 5
          [] n < 100              -> -15
          [] OTHER                -> 0

AdjSocial(c) ==
    CASE c.socials.twitter /\ c.socials.website        -> 15
      [] c.socials.twitter /\ ~c.socials.website       -> 10
      [] ~c.socials.twitter /\ (c.socials.telegram \/ c.socials.website) -> 5
      [] ~c.socials.twitter /\ ~c.socials.telegram /\ ~c.socials.website -> -25

\* the boost rows, which the table does not have
AdjBoost(c) ==
    LET b == OrZero(c.boostAmount)
    IN  CASE b > 500             -> 3
          [] b > 100 /\ b <= 500 -> 2
          [] b <= 100            -> 0

\* C23 (as stated): the score is base 50 plus exactly one adjustment per
\* signal of the table (volume/liquidity ratio, buy ratio, 24h price change,
\* liquidity tier, volume tier, market cap, transaction count, social
\* presence) and nothing else, clamped to [0, 100]; a 24h price change
\* between -30% and -10% contributes -15 and one below -30% contributes -25.
C23_TableAsStated ==
    evaluation.done =>
        evaluation.score =
            Min(100, Max(0, 50 + AdjVolLiq(candidate) + AdjBuyRatio(candidate)
                            + AdjPriceChangeAsStated(candidate)
                            + AdjLiquidity(candidate) + AdjVolume(candidate)
                            + AdjMarketCap(candidate) + AdjTxns(candidate)
                            + AdjSocial(candidate)))

\* C23 (amended): the score is base 50 plus one adjustment per signal of
\* the table and one for the boost amount (+3 above 500, +2 above 100),
\* clamped to [0, 100], where a 24h price change from -30% to -10%
\* contributes nothing, one below -30% down to -50% contributes -15 and one
\* below -50% contributes -25.
C23_Table ==
    evaluation.done =>
        evaluation.score =
            Min(100, Max(0, 50 + AdjVolLiq(candidate) + AdjBuyRatio(candidate)
                            + AdjPriceChange(candidate)
                            + AdjLiquidity(candidate) + AdjVolume(candidate)
                            + AdjMarketCap(candidate) + AdjTxns(candidate)
                            + AdjSocial(candidate) + AdjBoost(candidate)))

\* a boosted candidate whose price fell by 20% has a score strictly inside
\* the range, where no adjustment is hidden by the clamp
C23_Witness ==
    /\ evaluation.done
    /\ candidate.priceChange24h = Num(-20)
    /\ candidate.boostAmount = Num(600)
    /\ evaluation.score > 0
    /\ evaluation.score < 100

\* what the socials of candidate c add to its score before the clamp: the
\* sum for c less the sum for c with twitter and website (which add 15)
SocialContribution(c) ==
    calculateScoreUnclamped(c) + 15
    - calculateScoreUnclamped(
        [c EXCEPT !.socials = [twitter |-> TRUE, telegram |-> TRUE,
                               website |-> TRUE]])

\* the flag f is in the evaluation's flags
Flagged(f) == \E i \in 1..Len(evaluation.flags) : evaluation.flags[i] = f

\* C24: flags and score are consistent: the rug-risk (no socials) flag is
\* raised if and only if the socials contribute the -25 penalty to the
\* score, which is exactly when the candidate has neither twitter, telegram
\* nor website.
C24_RugRiskConsistent ==
    evaluation.done =>
        /\ Flagged("NO_SOCIALS_RUG_RISK") <=> SocialContribution(candidate) = -25
        /\ Flagged("NO_SOCIALS_RUG_RISK") <=>
               (/\ ~candidate.socials.twitter
                /\ ~candidate.socials.telegram
                /\ ~candidate.socials.website)

\* a candidate with no socials at all has been flagged and penalised, and
\* its penalty shows in a score above the clamp
C24_Witness ==
    /\ evaluation.done
    /\ Flagged("NO_SOCIALS_RUG_RISK")
    /\ SocialContribution(candidate) = -25
    /\ evaluation.score > 0

\* C25 (as stated): scoring is pure and deterministic: once a candidate
\* record has been evaluated, evaluating the same record again, at any later
\* time, returns the same score and the same flags, and an evaluation
\* changes nothing of the wallet, the ledger or the agent's loop.
C25_Deterministic ==
    [][/\ evaluation.done => evaluation' = evaluation
       /\ evaluation' # evaluation =>
              UNCHANGED <<engine, toolBlocks, inFlight, questionQueue, candidate>>]_vars

\* C26: openPosition, updatePrice and closePosition on one address leave
\* the position stored at every other address unchanged in all its fields,
\* and store nothing at another address.
C26_LocalToAddress ==
    [][last'.op \in {"openPosition", "updatePrice", "closePosition"} =>
        /\ \A i \in 1..Len(positions) :
               positions[i].key # last'.addr =>
                   /\ hasPosition(positions', positions[i].key)
                   /\ MapGet(positions', positions[i].key) = positions[i].value
        /\ \A j \in 1..Len(positions') :
               positions'[j].key # last'.addr =>
                   hasPosition(positions, positions'[j].key)]_vars

\* two positions are open and only the one whose price was just updated
\* carries a current price
C26_Witness ==
    /\ last.op = "updatePrice"
    /\ getPositionCount(positions) = 2
    /\ MapGet(positions, last.addr).currentPrice = Num(last.price)
    /\ \E i \in 1..Len(positions) :
           /\ positions[i].key # last.addr
           /\ positions[i].value.currentPrice = Undef

\* the data of position p that a restart is to preserve
Durable(p) ==
    [tokenAddress |-> p.tokenAddress, tokenSymbol |-> p.tokenSymbol,
     entryPrice |-> p.entryPrice, entryTime |-> p.entryTime,
     amount |-> p.amount, costBasis |-> p.costBasis,
     stopLoss |-> p.stopLoss, takeProfit |-> p.takeProfit]

\* C27 (as stated): after any sequence of trades, price refreshes,
\* set_stop_loss and set_take_profit whose disk writes succeed, a
\* PositionManager constructed afterwards holds the same addresses with the
\* same entry data, stopLoss and takeProfit as the ledger in memory had.
C27_Durable ==
    [][last'.op = "restart" =>
        /\ Len(positions') = Len(positions)
        /\ \A i \in 1..Len(positions) :
               /\ hasPosition(positions', positions[i].key)
               /\ Durable(MapGet(positions', positions[i].key))
                      = Durable(positions[i].value)]_vars

\* the price refresh just performed told to sell the position at address a
Triggered(a) ==
    /\ last.op = "check_stop_loss_take_profit"
    /\ hasPosition(positions, a)
    /\ \E r \in {"stop_loss", "take_profit"} : <<a, r>> \in last.triggers

\* C28 (as stated): whenever a price refresh has reported shouldSell for an
\* open position, a sell intent for the position's full amount is
\* eventually accepted and executed and the address has no position any
\* more, whatever the position's size in token units, provided the asset
\* stays tradable, the swap succeeds, the intent keeps being issued and the
\* cooldown is left to elapse.
C28_ExitLiveness ==
    \A a \in ExitAddrs : Triggered(a) ~> ~hasPosition(positions, a)

\* C29: a buyToken / sellToken call made on the wallet directly reaches the
\* swap collaborator only if canTrade(amount) allows it at that time: the
\* wallet is loaded, the amount is within maxTradeSize, the cooldown has
\* elapsed and the daily loss is within the limit (or its window is over).
C29_GatedDispatch ==
    [][(last'.op = "executeSwap" /\ Consulted(last', "swap")) =>
        /\ canTrade(Wallet, last'.amount, now).allowed
        /\ keypair
        /\ last'.amount <= MaxTradeSize
        /\ now - lastTradeTime >= CooldownMs
        /\ (dailyPnl >= -DailyLossLimit \/ now - dailyPnlResetTime > DayMs)]_vars

\* a swap called on the wallet directly has gone through with the daily
\* loss exactly at the limit
C29_Witness ==
    /\ last.op = "executeSwap"
    /\ Consulted(last, "swap")
    /\ last.kind = "Success"
    /\ dailyPnl = -DailyLossLimit

\* the style the tally is said to choose: the one with the largest count,
\* APE when there are no votes or when the largest count is tied
leaders(m) ==
    LET counts == voteCounts(m)
    IN  {s \in DOMAIN counts : \A o \in DOMAIN counts : counts[s] >= counts[o]}
statedWinner(m) ==
    LET counts == voteCounts(m)
    IN  IF Cardinality(leaders(m)) = 1 /\ \E s \in leaders(m) : counts[s] > 0
        THEN CHOOSE s \in leaders(m) : TRUE
        ELSE "APE"

\* C30: at each tally the new style is the style with the largest vote
\* count among the votes of the period, and APE when there are no votes or
\* when the largest count is tied between two or more styles.
C30_TallyWinner ==
    [][last'.op = "tallyVotes" => currentStyle' = statedWinner(votes)]_vars

====
